---- MODULE Spec2Model ----
(***************************************************************************)
(* Pitch model of ear-trainer (src/src/notes.rs): the Note enumeration,   *)
(* note <-> frequency conversion, NoteWithOctave parsing and Scale degree *)
(* generation.  Every operation of the library is a pure function; the    *)
(* state machine below draws one call (operation and input) from bounded  *)
(* sets and applies the operation, recording its result.                  *)
(*                                                                         *)
(* Frequencies.  An f64 frequency is one of: a negative number, zero, NaN,*)
(* +infinity, or a positive finite number.  A positive finite frequency f *)
(* is represented by its pitch u = Res * 12 * log2(f / 440), an integer   *)
(* count of 1/Res semitone steps above A4, so that to_frequency is        *)
(* 440 * 2^(s/12) |-> u = Res * s and 12 * log2(f / 440) is u / Res.      *)
(* The floating-point error of powf and log2 (below 1e-9 semitone for the *)
(* magnitudes an u8 octave produces) is far below the 0.5 that rounding   *)
(* tolerates and is not modelled.                                          *)
(***************************************************************************)
EXTENDS Integers, Sequences, FiniteSets, TLC

VARIABLES op, arg, res, pc

vars == <<op, arg, res, pc>>

(***************************************************************************)
(* Bounds of the model.                                                    *)
(***************************************************************************)
\* pitch steps per semitone in the representation of a positive frequency
Res == 4
\* FromFrequency draws positive frequencies within this many semitones of A4
MaxSemitones == 100
\* longest note token (characters before the first digit) of a parsed input
MaxNoteLen == 2
\* longest octave part (first digit onwards) of a parsed input
MaxOctaveLen == 3

(***************************************************************************)
(* Machine integers.                                                       *)
(***************************************************************************)
U8Max == 255
I32Max == 2147483647

\* `x as u8` of an i32 x: the low 8 bits
AsU8(x) == x % (U8Max + 1)

\* i32 `/`: quotient truncated toward zero
TruncDiv(a, b) == IF a >= 0 THEN a \div b ELSE -((-a) \div b)

\* i32 `%`: remainder with the sign of the dividend
TruncRem(a, b) == a - b * TruncDiv(a, b)

(***************************************************************************)
(* enum Note, in declaration order.                                        *)
(***************************************************************************)
NoteOrder == <<"C", "CSharp", "D", "DSharp", "E", "F",
               "FSharp", "G", "GSharp", "A", "ASharp", "B">>

Note == {NoteOrder[i] : i \in 1..Len(NoteOrder)}

NoteWithOctave == [note : Note, octave : 0..U8Max]

ScaleType == {"Major", "Minor"}

Ok(v) == [ok |-> TRUE, val |-> v]

Err(e) == [ok |-> FALSE, err |-> e]

Some(v) == [some |-> TRUE, val |-> v]

None == [some |-> FALSE]

(***************************************************************************)
(* Note: pitch-class arithmetic.                                           *)
(***************************************************************************)
\* note_offset counted upward from A: C..G# placed above A, not below it
note_offset_upward(note) ==
    CASE note = "C" -> 3
      [] note = "CSharp" -> 4
      [] note = "D" -> 5
      [] note = "DSharp" -> 6
      [] note = "E" -> 7
      [] note = "F" -> 8
      [] note = "FSharp" -> 9
      [] note = "G" -> 10
      [] note = "GSharp" -> 11
      [] note = "A" -> 0
      [] note = "ASharp" -> 1
      [] note = "B" -> 2

note_offset(note) ==
    CASE note = "C" -> -9
      [] note = "CSharp" -> -8
      [] note = "D" -> -7
      [] note = "DSharp" -> -6
      [] note = "E" -> -5
      [] note = "F" -> -4
      [] note = "FSharp" -> -3
      [] note = "G" -> -2
      [] note = "GSharp" -> -1
      [] note = "A" -> 0
      [] note = "ASharp" -> 1
      [] note = "B" -> 2

\* semitones_from_a4 without the 12 semitones per octave
semitones_from_a4_unscaled(note, octave) ==
    LET octave_offset == octave - 4
    IN  octave_offset + note_offset(note)

semitones_from_a4(note, octave) ==
    LET octave_offset == (octave - 4) * 12
    IN  octave_offset + note_offset(note)

to_frequency(note, octave) ==
    [kind |-> "pos", u |-> Res * semitones_from_a4(note, octave)]

\* frequency * 2.0 of a positive frequency: one octave, 12 semitones, up
times_two(frequency) ==
    [kind |-> "pos", u |-> frequency.u + 12 * Res]

\* f64::round of u / Res: nearest integer, ties away from zero
Round(u) ==
    IF u >= 0 THEN (2 * u + Res) \div (2 * Res)
    ELSE -((2 * (-u) + Res) \div (2 * Res))

\* (12.0 * (frequency / 440.0).log2()).round() as i32, for a frequency that
\* passed the `<= 0.0` test: NaN casts to 0, +infinity saturates
rounded_semitones_of(frequency) ==
    CASE frequency.kind = "nan" -> 0
      [] frequency.kind = "inf" -> I32Max
      [] frequency.kind = "pos" -> Round(frequency.u)

\* the table of from_frequency in the C-relative order of from_semitone
note_of_index_c_relative(note_index) == NoteOrder[note_index + 1]

\* the A-relative table of from_frequency
note_of_index(note_index) ==
    CASE note_index = 0 -> "A"
      [] note_index = 1 -> "ASharp"
      [] note_index = 2 -> "B"
      [] note_index = 3 -> "C"
      [] note_index = 4 -> "CSharp"
      [] note_index = 5 -> "D"
      [] note_index = 6 -> "DSharp"
      [] note_index = 7 -> "E"
      [] note_index = 8 -> "F"
      [] note_index = 9 -> "FSharp"
      [] note_index = 10 -> "G"
      [] note_index = 11 -> "GSharp"

\* ((rounded_semitones % 12) + 12) % 12 of from_frequency
note_index_of(rounded_semitones) ==
    TruncRem(TruncRem(rounded_semitones, 12) + 12, 12)

from_frequency(frequency) ==
    IF frequency.kind \in {"neg", "zero"}
    THEN Err(<<"Frequency must be positive">>)
    ELSE LET rounded_semitones == rounded_semitones_of(frequency)
             octave == 4 + TruncDiv(rounded_semitones, 12)
             note_index == TruncRem(TruncRem(rounded_semitones, 12) + 12, 12)
         IN  IF octave < 0 \/ octave > 10
             THEN Err(<<"Octave out of reasonable range (0-10)", octave>>)
             ELSE Ok([note |-> note_of_index(note_index),
                      octave |-> AsU8(octave)])

\* to_semitone numbered from A, as the table of from_frequency is
to_semitone_a_relative(note) == note_index_of(note_offset(note))

to_semitone(note) ==
    CASE note = "C" -> 0
      [] note = "CSharp" -> 1
      [] note = "D" -> 2
      [] note = "DSharp" -> 3
      [] note = "E" -> 4
      [] note = "F" -> 5
      [] note = "FSharp" -> 6
      [] note = "G" -> 7
      [] note = "GSharp" -> 8
      [] note = "A" -> 9
      [] note = "ASharp" -> 10
      [] note = "B" -> 11

\* from_semitone matching on the argument itself, without `% 12`
from_semitone_no_wrap(semitone) ==
    IF semitone < 12 THEN Some(NoteOrder[semitone + 1]) ELSE None

from_semitone(semitone) ==
    LET m == semitone % 12
    IN  CASE m = 0 -> Some("C")
          [] m = 1 -> Some("CSharp")
          [] m = 2 -> Some("D")
          [] m = 3 -> Some("DSharp")
          [] m = 4 -> Some("E")
          [] m = 5 -> Some("F")
          [] m = 6 -> Some("FSharp")
          [] m = 7 -> Some("G")
          [] m = 8 -> Some("GSharp")
          [] m = 9 -> Some("A")
          [] m = 10 -> Some("ASharp")
          [] m = 11 -> Some("B")
          [] OTHER -> None

(***************************************************************************)
(* Scale: interval-based degree generation.                                *)
(***************************************************************************)
intervals(scale_type) ==
    CASE scale_type = "Major" -> <<0, 2, 4, 5, 7, 9, 11>>
      [] scale_type = "Minor" -> <<0, 2, 3, 5, 7, 8, 10>>

\* note_at_interval that keeps the root's octave for every degree
note_at_interval_no_rollover(scale, semitones) ==
    LET root_semitone == to_semitone(scale.root.note)
        target_semitone == TruncRem(root_semitone + semitones, 12)
        target_note == from_semitone(AsU8(target_semitone))
    IN  IF ~target_note.some THEN None
        ELSE Some([note |-> target_note.val, octave |-> scale.root.octave])

note_at_interval(scale, semitones) ==
    LET root_semitone == to_semitone(scale.root.note)
        target_semitone == TruncRem(root_semitone + semitones, 12)
        octave_increase == TruncDiv(root_semitone + semitones, 12)
        target_note == from_semitone(AsU8(target_semitone))
        target_octave == scale.root.octave + octave_increase
    IN  IF ~target_note.some THEN None
        ELSE Some([note |-> target_note.val, octave |-> AsU8(target_octave)])

\* notes that starts at the second interval
notes_skip_first(scale) ==
    LET iv == intervals(scale.scale_type)
        scale_notes[i \in 1..Len(iv)] ==
            IF i = 1 THEN <<>>
            ELSE LET note == note_at_interval(scale, iv[i])
                 IN  IF note.some THEN Append(scale_notes[i - 1], note.val)
                     ELSE scale_notes[i - 1]
    IN  scale_notes[Len(iv)]

\* Scale::notes: one push per interval whose note_at_interval is Some
notes(scale) ==
    LET iv == intervals(scale.scale_type)
        scale_notes[i \in 0..Len(iv)] ==
            IF i = 0 THEN <<>>
            ELSE LET note == note_at_interval(scale, iv[i])
                 IN  IF note.some THEN Append(scale_notes[i - 1], note.val)
                     ELSE scale_notes[i - 1]
    IN  scale_notes[Len(iv)]

(***************************************************************************)
(* Text.  A string is a sequence of one-character strings.                 *)
(***************************************************************************)
AsciiDigits == {"0", "1", "2", "3", "4", "5", "6", "7", "8", "9"}

\* char::is_ascii_digit
is_ascii_digit(c) == c \in AsciiDigits

\* char::to_digit(10) of an ASCII digit
to_digit(c) ==
    CASE c = "0" -> 0 [] c = "1" -> 1 [] c = "2" -> 2 [] c = "3" -> 3
      [] c = "4" -> 4 [] c = "5" -> 5 [] c = "6" -> 6 [] c = "7" -> 7
      [] c = "8" -> 8 [] c = "9" -> 9

\* impl FromStr for Note
note_from_str(s) ==
    CASE s = <<"C">> -> Ok("C")
      [] s = <<"D">> -> Ok("D")
      [] s = <<"E">> -> Ok("E")
      [] s = <<"F">> -> Ok("F")
      [] s = <<"G">> -> Ok("G")
      [] s = <<"A">> -> Ok("A")
      [] s = <<"B">> -> Ok("B")
      [] s = <<"C", "#">> -> Ok("CSharp")
      [] s = <<"D", "#">> -> Ok("DSharp")
      [] s = <<"F", "#">> -> Ok("FSharp")
      [] s = <<"G", "#">> -> Ok("GSharp")
      [] s = <<"A", "#">> -> Ok("ASharp")
      [] s = <<"D", "b">> -> Ok("CSharp")
      [] s = <<"E", "b">> -> Ok("DSharp")
      [] s = <<"G", "b">> -> Ok("FSharp")
      [] s = <<"A", "b">> -> Ok("GSharp")
      [] s = <<"B", "b">> -> Ok("ASharp")
      [] OTHER -> Err(<<"Invalid note", s>>)

\* str::parse::<u8> of a string that does not start with a sign: the digits
\* are accumulated left to right; a non-digit is reported where it stands,
\* a value above u8::MAX where the accumulation first exceeds it
parse_u8(s) ==
    LET step[i \in 0..Len(s)] ==
            IF i = 0 THEN Ok(0)
            ELSE LET prev == step[i - 1]
                 IN  IF ~prev.ok THEN prev
                     ELSE IF ~is_ascii_digit(s[i])
                     THEN Err(<<"invalid digit found in string">>)
                     ELSE IF prev.val * 10 + to_digit(s[i]) > U8Max
                     THEN Err(<<"number too large to fit in target type">>)
                     ELSE Ok(prev.val * 10 + to_digit(s[i]))
    IN  IF Len(s) = 0 THEN Err(<<"cannot parse integer from empty string">>)
        ELSE step[Len(s)]

\* str::find(|c| c.is_ascii_digit())
find_digit(s) ==
    LET hits == {i \in 1..Len(s) : is_ascii_digit(s[i])}
    IN  IF hits = {} THEN None
        ELSE Some(CHOOSE i \in hits : \A j \in hits : i <= j)

\* the (note_str, octave_str) split of NoteWithOctave::from_str
split_note_octave(s) ==
    LET found == find_digit(s)
    IN  IF found.some
        THEN [note_str |-> SubSeq(s, 1, found.val - 1),
              octave_str |-> SubSeq(s, found.val, Len(s))]
        ELSE [note_str |-> s, octave_str |-> <<"4">>]

\* a note token parse that reads a flat as its natural letter
note_token_parse_flat_dropped(note_str) ==
    IF Len(note_str) = 2 /\ note_str[2] = "b"
    THEN note_from_str(<<note_str[1]>>)
    ELSE note_from_str(note_str)

\* a note token parse that also takes Cb, Fb, E# and B#
note_token_parse_any_accidental(note_str) ==
    CASE note_str = <<"C", "b">> -> Ok("B")
      [] note_str = <<"F", "b">> -> Ok("E")
      [] note_str = <<"E", "#">> -> Ok("F")
      [] note_str = <<"B", "#">> -> Ok("C")
      [] OTHER -> note_from_str(note_str)

\* note_str.parse::<Note>()
note_token_parse(note_str) == note_from_str(note_str)

\* an octave parse with wrapping instead of checked arithmetic
octave_token_parse_wrapping(octave_str) ==
    LET step[i \in 0..Len(octave_str)] ==
            IF i = 0 THEN Ok(0)
            ELSE LET prev == step[i - 1]
                 IN  IF ~prev.ok THEN prev
                     ELSE IF ~is_ascii_digit(octave_str[i])
                     THEN Err(<<"invalid digit found in string">>)
                     ELSE Ok(AsU8(prev.val * 10 + to_digit(octave_str[i])))
    IN  IF Len(octave_str) = 0
        THEN Err(<<"cannot parse integer from empty string">>)
        ELSE step[Len(octave_str)]

\* an octave parse that falls back to 4: parse::<u8>().unwrap_or(4)
octave_token_parse_or_default(octave_str) ==
    IF parse_u8(octave_str).ok THEN parse_u8(octave_str) ELSE Ok(4)

\* octave_str.parse::<u8>().map_err(|e| e.to_string())
octave_token_parse(octave_str) == parse_u8(octave_str)

\* impl FromStr for NoteWithOctave
note_with_octave_from_str(s) ==
    LET parts == split_note_octave(s)
        note == note_token_parse(parts.note_str)
        octave == octave_token_parse(parts.octave_str)
    IN  IF ~note.ok THEN note
        ELSE IF ~octave.ok THEN octave
        ELSE Ok([note |-> note.val, octave |-> octave.val])

\* a Display for Note that spells the black keys as flats
note_display_flats(note) ==
    CASE note = "C" -> <<"C">>
      [] note = "CSharp" -> <<"D", "b">>
      [] note = "D" -> <<"D">>
      [] note = "DSharp" -> <<"E", "b">>
      [] note = "E" -> <<"E">>
      [] note = "F" -> <<"F">>
      [] note = "FSharp" -> <<"G", "b">>
      [] note = "G" -> <<"G">>
      [] note = "GSharp" -> <<"A", "b">>
      [] note = "A" -> <<"A">>
      [] note = "ASharp" -> <<"B", "b">>
      [] note = "B" -> <<"B">>

\* impl Display for Note
note_display(note) ==
    CASE note = "C" -> <<"C">>
      [] note = "CSharp" -> <<"C", "#">>
      [] note = "D" -> <<"D">>
      [] note = "DSharp" -> <<"D", "#">>
      [] note = "E" -> <<"E">>
      [] note = "F" -> <<"F">>
      [] note = "FSharp" -> <<"F", "#">>
      [] note = "G" -> <<"G">>
      [] note = "GSharp" -> <<"G", "#">>
      [] note = "A" -> <<"A">>
      [] note = "ASharp" -> <<"A", "#">>
      [] note = "B" -> <<"B">>

\* the character of a decimal digit
digit_char(d) ==
    CASE d = 0 -> "0" [] d = 1 -> "1" [] d = 2 -> "2" [] d = 3 -> "3"
      [] d = 4 -> "4" [] d = 5 -> "5" [] d = 6 -> "6" [] d = 7 -> "7"
      [] d = 8 -> "8" [] d = 9 -> "9"

\* Display of an u8: its decimal digits, no sign, no leading zero
u8_display(n) ==
    IF n >= 100
    THEN <<digit_char(n \div 100), digit_char((n \div 10) % 10),
           digit_char(n % 10)>>
    ELSE IF n >= 10 THEN <<digit_char(n \div 10), digit_char(n % 10)>>
    ELSE <<digit_char(n)>>

\* impl Display for NoteWithOctave: write!(f, "{}{}", self.note, self.octave)
note_with_octave_display(nwo) ==
    note_display(nwo.note) \o u8_display(nwo.octave)

(***************************************************************************)
(* Inputs.                                                                 *)
(***************************************************************************)
\* characters a note token is drawn from
NoteChars == {"C", "D", "E", "F", "G", "A", "B", "#", "b"}

\* digits an octave part is drawn from
DigitChars == {"0", "2", "4", "5", "6"}

\* characters that may follow the first digit
TailChars == DigitChars \cup {"#"}

StringsOver(chars, n) == UNION {[1..k -> chars] : k \in 0..n}

\* every string over the characters above is tok \o oct for exactly one pair
\* of a digit-free tok and an oct that is empty or starts with a digit
NoteTokens == StringsOver(NoteChars, MaxNoteLen)

OctaveParts ==
    {<<>>} \cup {<<d>> \o t : d \in DigitChars,
                              t \in StringsOver(TailChars, MaxOctaveLen - 1)}

Frequencies ==
    {[kind |-> k, u |-> 0] : k \in {"neg", "zero", "nan", "inf"}}
    \cup {[kind |-> "pos", u |-> u] :
            u \in -(MaxSemitones * Res)..(MaxSemitones * Res)}

(***************************************************************************)
(* The state machine.  A behaviour is one library call: Init draws the     *)
(* operation and its input, the operation's action computes the result.   *)
(***************************************************************************)
\* the semitone classes, 0..11
SemitoneClasses == 0..(Len(NoteOrder) - 1)

Scales == [root : NoteWithOctave, scale_type : ScaleType]

Init ==
    /\ pc = "call"
    /\ res = <<>>
    /\ \/ op = "round_trip" /\ arg \in NoteWithOctave
       \/ op = "from_frequency" /\ arg \in Frequencies
       \/ op = "from_semitone" /\ arg \in 0..U8Max
       \/ op = "scale_notes" /\ arg \in Scales
       \/ op = "note_tables" /\ arg \in Note
       \/ op = "octave_doubling"
          /\ arg \in [note : Note, octave : 0..(U8Max - 1)]
       \/ op = "semitone_class" /\ arg \in SemitoneClasses
       \/ op = "display_parse" /\ arg \in NoteWithOctave
       \/ /\ op = "parse_display"
          /\ \E tok \in NoteTokens, oct \in OctaveParts :
                arg = [s |-> tok \o oct, tok |-> tok, oct |-> oct]
       \/ /\ op = "parse"
          /\ \E tok \in NoteTokens, oct \in OctaveParts :
                arg = [s |-> tok \o oct, tok |-> tok, oct |-> oct]

\* Note::from_frequency(note.to_frequency(octave)), as test_round_trip_conversion
RoundTrip ==
    /\ pc = "call" /\ op = "round_trip"
    /\ res' = from_frequency(to_frequency(arg.note, arg.octave))
    /\ pc' = "return"
    /\ UNCHANGED <<op, arg>>

FromFrequency ==
    /\ pc = "call" /\ op = "from_frequency"
    /\ res' = from_frequency(arg)
    /\ pc' = "return"
    /\ UNCHANGED <<op, arg>>

FromSemitone ==
    /\ pc = "call" /\ op = "from_semitone"
    /\ res' = from_semitone(arg)
    /\ pc' = "return"
    /\ UNCHANGED <<op, arg>>

ScaleNotes ==
    /\ pc = "call" /\ op = "scale_notes"
    /\ res' = notes(arg)
    /\ pc' = "return"
    /\ UNCHANGED <<op, arg>>

\* a note looked up in both tables: C-relative (to_semitone, from_semitone)
\* and A-relative (note_offset, the note_index and table of from_frequency)
NoteTables ==
    /\ pc = "call" /\ op = "note_tables"
    /\ res' = [semitone |-> to_semitone(arg),
               from_semitone |-> from_semitone(AsU8(to_semitone(arg))),
               offset |-> note_offset(arg),
               index |-> note_index_of(note_offset(arg)),
               at_index |-> note_of_index(note_index_of(note_offset(arg))),
               table_indices |->
                   {i \in SemitoneClasses : note_of_index(i) = arg}]
    /\ pc' = "return"
    /\ UNCHANGED <<op, arg>>

\* Note::from_semitone(s).unwrap().to_semitone() for a semitone class s
SemitoneClass ==
    /\ pc = "call" /\ op = "semitone_class"
    /\ res' = LET note == from_semitone(arg)
              IN  [note |-> note,
                   semitone |-> IF note.some THEN to_semitone(note.val)
                                ELSE -1]
    /\ pc' = "return"
    /\ UNCHANGED <<op, arg>>

\* note.to_frequency(octave + 1) against note.to_frequency(octave) * 2.0, as
\* test_octave_doubling, with the semitone distances behind both
OctaveDoubling ==
    /\ pc = "call" /\ op = "octave_doubling"
    /\ res' = [low |-> to_frequency(arg.note, arg.octave),
               high |-> to_frequency(arg.note, arg.octave + 1),
               low_doubled |-> times_two(to_frequency(arg.note, arg.octave)),
               low_semitones |-> semitones_from_a4(arg.note, arg.octave),
               high_semitones |-> semitones_from_a4(arg.note, arg.octave + 1)]
    /\ pc' = "return"
    /\ UNCHANGED <<op, arg>>

\* format!("{}", nwo).parse::<NoteWithOctave>()
DisplayParse ==
    /\ pc = "call" /\ op = "display_parse"
    /\ res' = [text |-> note_with_octave_display(arg),
               parsed |-> note_with_octave_from_str(
                              note_with_octave_display(arg))]
    /\ pc' = "return"
    /\ UNCHANGED <<op, arg>>

\* s.parse::<NoteWithOctave>() and, when it succeeds, format!("{}", note)
ParseDisplay ==
    /\ pc = "call" /\ op = "parse_display"
    /\ res' = LET parsed == note_with_octave_from_str(arg.s)
              IN  [parsed |-> parsed,
                   text |-> IF parsed.ok
                            THEN note_with_octave_display(parsed.val)
                            ELSE <<>>]
    /\ pc' = "return"
    /\ UNCHANGED <<op, arg>>

Parse ==
    /\ pc = "call" /\ op = "parse"
    /\ res' = note_with_octave_from_str(arg.s)
    /\ pc' = "return"
    /\ UNCHANGED <<op, arg>>

Next ==
    \/ RoundTrip
    \/ FromFrequency
    \/ FromSemitone
    \/ ScaleNotes
    \/ NoteTables
    \/ SemitoneClass
    \/ OctaveDoubling
    \/ DisplayParse
    \/ ParseDisplay
    \/ Parse

Spec == Init /\ [][Next]_vars

(***************************************************************************)
(* Properties.                                                             *)
(***************************************************************************)
Returned(o) == pc = "return" /\ op = o

\* position of a note in the enumeration, 1..12
Pos(note) == CHOOSE i \in 1..Len(NoteOrder) : NoteOrder[i] = note

\* the 17 spellings of a note token
Spellings ==
    {<<"C">>, <<"D">>, <<"E">>, <<"F">>, <<"G">>, <<"A">>, <<"B">>,
     <<"C", "#">>, <<"D", "#">>, <<"F", "#">>, <<"G", "#">>, <<"A", "#">>,
     <<"D", "b">>, <<"E", "b">>, <<"G", "b">>, <<"A", "b">>, <<"B", "b">>}

AllDigits(s) == \A i \in 1..Len(s) : s[i] \in AsciiDigits

\* the number a string of decimal digits writes
RECURSIVE DecimalValue(_)
DecimalValue(s) ==
    IF Len(s) = 0 THEN 0
    ELSE 10 * DecimalValue(SubSeq(s, 1, Len(s) - 1)) + to_digit(s[Len(s)])

IsDecimalInteger(s) == Len(s) > 0 /\ AllDigits(s)

IsNoteError(r) == ~r.ok /\ r.err[1] = "Invalid note"

IsOctaveError(r) == ~r.ok /\ r.err[1] # "Invalid note"

\* C1: for every note N and octave O in 0..10,
\* from_frequency(N.to_frequency(O)) is Ok((N, O)).
C1_RoundTrip ==
    (Returned("round_trip") /\ arg.octave \in 0..10) => res = Ok(arg)

\* C2: for every root with octave 0..254 and each scale type, degree i lies
\* exactly intervals[i] semitones above the root in absolute pitch; its
\* octave is the root's, or one more when the degree's note comes before the
\* root's note in the C..B order (the degree crossed the B-to-C boundary).
C2_ScaleRollOver ==
    (Returned("scale_notes") /\ arg.root.octave \in 0..254) =>
        LET iv == intervals(arg.scale_type)
        IN  /\ Len(res) = Len(iv)
            /\ \A i \in 1..Len(iv) :
                /\ semitones_from_a4(res[i].note, res[i].octave)
                     = semitones_from_a4(arg.root.note, arg.root.octave) + iv[i]
                /\ res[i].octave =
                     IF Pos(res[i].note) < Pos(arg.root.note)
                     THEN arg.root.octave + 1 ELSE arg.root.octave

C2_Witness ==
    /\ Returned("scale_notes")
    /\ arg = [root |-> [note |-> "B", octave |-> 4], scale_type |-> "Major"]
    /\ res[1] = [note |-> "B", octave |-> 4]
    /\ res[2] = [note |-> "CSharp", octave |-> 5]

\* C3: for every note N and octave O > 10, from_frequency(N.to_frequency(O))
\* is the out-of-range error.
C3_InverseRejectsHighOctave ==
    (Returned("round_trip") /\ arg.octave > 10) =>
        ~res.ok /\ res.err[1] = "Octave out of reasonable range (0-10)"

\* C4: for every root and both scale types, notes() has exactly 7 entries
\* and the first is the root itself.
C4_SevenDegreesRootFirst ==
    Returned("scale_notes") => Len(res) = 7 /\ res[1] = arg.root

C4_Witness ==
    /\ Returned("scale_notes")
    /\ arg.root = [note |-> "GSharp", octave |-> U8Max]
    /\ arg.scale_type = "Minor"
    /\ Len(res) = 7
    /\ res[1] = arg.root

FlatToSharp ==
    [t \in {<<"D", "b">>, <<"E", "b">>, <<"G", "b">>, <<"A", "b">>, <<"B", "b">>}
        |-> CASE t = <<"D", "b">> -> [spelling |-> <<"C", "#">>, note |-> "CSharp"]
              [] t = <<"E", "b">> -> [spelling |-> <<"D", "#">>, note |-> "DSharp"]
              [] t = <<"G", "b">> -> [spelling |-> <<"F", "#">>, note |-> "FSharp"]
              [] t = <<"A", "b">> -> [spelling |-> <<"G", "#">>, note |-> "GSharp"]
              [] t = <<"B", "b">> -> [spelling |-> <<"A", "#">>, note |-> "ASharp"]]

C6_EnharmonicParse ==
    Returned("parse") =>
        /\ arg.tok \in DOMAIN FlatToSharp =>
             /\ res = note_with_octave_from_str(
                          FlatToSharp[arg.tok].spelling \o arg.oct)
             /\ res.ok => res.val.note = FlatToSharp[arg.tok].note
        /\ arg.tok \in {<<"C", "b">>, <<"B", "#">>} => ~res.ok

C6_Witness ==
    /\ Returned("parse")
    /\ arg.s = <<"D", "b", "4">>
    /\ res = Ok([note |-> "CSharp", octave |-> 4])

\* C7: the note token is accepted iff it is one of the 17 spellings; any
\* other token, the empty one included, fails with the invalid-note error.
C7_NoteTokenAccepted ==
    Returned("parse") =>
        /\ arg.tok \in Spellings <=> ~IsNoteError(res)
        /\ arg.tok \notin Spellings => res = Err(<<"Invalid note", arg.tok>>)

C7_Witness ==
    /\ Returned("parse")
    /\ arg.s = <<"2">>
    /\ res = Err(<<"Invalid note", <<>>>>)

\* C8: an input without a digit that is a recognized spelling parses with
\* octave 4; an octave part that fails to parse gives an error, and a
\* result with octave 4 from an input with an octave part wrote 4.
C8_OctaveDefault ==
    Returned("parse") =>
        /\ (arg.oct = <<>> /\ arg.tok \in Spellings) =>
             res.ok /\ res.val.octave = 4
        /\ (arg.oct # <<>>
              /\ ~(IsDecimalInteger(arg.oct) /\ DecimalValue(arg.oct) <= 255))
             => ~res.ok
        /\ (arg.oct # <<>> /\ res.ok /\ res.val.octave = 4) =>
             IsDecimalInteger(arg.oct) /\ DecimalValue(arg.oct) = 4

C8_Witness ==
    /\ Returned("parse")
    /\ arg.s = <<"C", "#">>
    /\ res = Ok([note |-> "CSharp", octave |-> 4])

\* C9: from_frequency returns a NoteWithOctave only for a strictly positive
\* frequency and only with an octave in 0..10; every frequency <= 0 is
\* rejected.
C9_OnlyPositiveInRange ==
    Returned("from_frequency") =>
        /\ res.ok => arg.kind \in {"pos", "inf"} /\ res.val.octave \in 0..10
        /\ arg.kind \in {"neg", "zero"} => ~res.ok

\* C10: for every s in 0..255 from_semitone(s) is Some, the note of class
\* s mod 12 in C..B order; so from_semitone(12) is C.
C10_FromSemitoneWraps ==
    Returned("from_semitone") =>
        /\ res.some
        /\ res.val = NoteOrder[(arg % 12) + 1]
        /\ arg = 12 => res.val = "C"

C10_Witness ==
    /\ Returned("from_semitone")
    /\ arg = 12
    /\ res = Some("C")

\* C11: for every note N, from_semitone(to_semitone(N)) = N and the
\* A-relative table at ((note_offset(N) % 12) + 12) % 12 holds N; for every
\* s in 0..11, to_semitone(from_semitone(s)) = s; and no two notes share a
\* C-relative semitone or an A-relative index.
C11_BothTablesRoundTrip ==
    /\ Returned("note_tables") =>
         /\ res.from_semitone = Some(arg)
         /\ res.index \in 0..11
         /\ res.at_index = arg
         /\ \A other \in Note \ {arg} :
              /\ to_semitone(other) # res.semitone
              /\ note_index_of(note_offset(other)) # res.index
    /\ Returned("semitone_class") =>
         res.note.some /\ res.semitone = arg

C11_Witness ==
    /\ Returned("note_tables")
    /\ arg = "C"
    /\ res.semitone = 0
    /\ res.offset = -9
    /\ res.index = 3
    /\ res.at_index = "C"

\* C15: for every note N, note_offset(N) = to_semitone(N) - 9, and N stands
\* in the A-relative table of from_frequency at exactly the index
\* (to_semitone(N) + 3) mod 12.
C15_TablesConsistent ==
    Returned("note_tables") =>
        /\ res.offset = res.semitone - 9
        /\ res.table_indices = {(res.semitone + 3) % 12}

C15_Witness ==
    /\ Returned("note_tables")
    /\ arg = "GSharp"
    /\ res.semitone = 8
    /\ res.offset = -1
    /\ res.table_indices = {11}

\* C12: for every note N and octave O, frequency(N, O+1) is twice
\* frequency(N, O), the semitone distance from A4 of (N, O+1) is 12 more
\* than that of (N, O), and A4 is at distance 0, which is 440 Hz.
C12_OctaveDoubling ==
    Returned("octave_doubling") =>
        /\ res.high = res.low_doubled
        /\ res.high_semitones = res.low_semitones + 12
        /\ arg = [note |-> "A", octave |-> 4] =>
             res.low_semitones = 0 /\ res.low = [kind |-> "pos", u |-> 0]

C12_Witness ==
    /\ Returned("octave_doubling")
    /\ arg = [note |-> "A", octave |-> 4]
    /\ res.low_semitones = 0
    /\ res.high_semitones = 12
    /\ res.high = res.low_doubled

\* the characters of a text before its first digit, and the rest
NamePart(text) ==
    SubSeq(text, 1,
           Cardinality({i \in 1..Len(text) :
                          \A j \in 1..i : text[j] \notin AsciiDigits}))

DigitPart(text) == SubSeq(text, Len(NamePart(text)) + 1, Len(text))

HasFlat(text) == \E i \in 1..Len(text) : text[i] = "b"

\* C13: a NoteWithOctave renders as a sharp-spelled name of its note (no
\* flat) followed by its octave in decimal, and parsing the rendering gives
\* the value back; a value parsed from a flat spelling renders with the
\* corresponding sharp.
C13_DisplayCanonical ==
    /\ Returned("display_parse") =>
         /\ NamePart(res.text) \in Spellings
         /\ ~HasFlat(res.text)
         /\ note_from_str(NamePart(res.text)) = Ok(arg.note)
         /\ IsDecimalInteger(DigitPart(res.text))
         /\ DecimalValue(DigitPart(res.text)) = arg.octave
         /\ Len(DigitPart(res.text)) > 1 => DigitPart(res.text)[1] # "0"
         /\ res.parsed = Ok(arg)
    /\ (Returned("parse_display") /\ res.parsed.ok) =>
         /\ ~HasFlat(res.text)
         /\ DecimalValue(DigitPart(res.text)) = res.parsed.val.octave
         /\ arg.tok \in DOMAIN FlatToSharp =>
              NamePart(res.text) = FlatToSharp[arg.tok].spelling

C13_Witness ==
    /\ Returned("parse_display")
    /\ arg.s = <<"B", "b", "2">>
    /\ res.parsed = Ok([note |-> "ASharp", octave |-> 2])
    /\ res.text = <<"A", "#", "2">>

\* C14: for every root octave 0..255, every degree of notes() has octave
\* root.octave + delta with delta in {0, 1}; the octave never wraps around
\* or falls below the root's.
C14_OctaveNeverWraps ==
    Returned("scale_notes") =>
        \A i \in 1..Len(res) :
            res[i].octave - arg.root.octave \in {0, 1}

\* C16: for every note N and octave O, when
\* from_frequency(N.to_frequency(O)) succeeds its note is N, whatever octave
\* it carries.
C16_PitchClassRecovered ==
    (Returned("round_trip") /\ res.ok) => res.val.note = arg.note

C16_Witness ==
    /\ Returned("round_trip")
    /\ arg = [note |-> "F", octave |-> 5]
    /\ res = Ok([note |-> "F", octave |-> 4])

====
